---- MODULE Spec2Model ----
(***************************************************************************)
(* Model of src/src/charge.py: charge_deposit (the deposit-charge flow)    *)
(* and parse_keypad (the randomized keypad decoder it calls); of           *)
(* parse_arguments and run of src/src/lotto645.py; of is_logged_in of      *)
(* src/src/login.py; and of run and __main__ of src/src/lotto720.py.       *)
(* Each program has its own specification (Spec, SpecDecode and            *)
(* SpecAttempts for charge.py, Spec645, SpecRun645, SpecLogin, Spec720)    *)
(* over its own variables; the variables of the other programs stay as     *)
(* they start.                                                             *)
(*                                                                         *)
(* The browser page and the OCR engine are the environment.  What the      *)
(* program reads from them (selector waits, the number of buttons, every   *)
(* bounding box, every OCR output, every text shown) is chosen when the    *)
(* program reads it.  Elements of the keypad are named by their index in   *)
(* the page's enumeration order (buttons.nth(i), counted from 1 here).     *)
(***************************************************************************)
EXTENDS Integers, Sequences, FiniteSets, TLC

VARIABLES
    CHARGE_PIN,        \* charge.py:16, a sequence of one-character strings
    amount,            \* argument of charge_deposit
    tesseract_ok,      \* whether the tesseract executable can be invoked
    pc,                \* position in charge_deposit / parse_keypad
    ret,               \* charge_deposit's return value: "unset", "True", "False"
    exc,               \* the exception that ended the call, or "none"
    pk_state,          \* parse_keypad: "not_called", "running", "returned", "raised"
    printed,           \* the print calls made, in order: the line and its values
    layout,            \* how the page enumerates the buttons: "page" or "reverse"
    shuffle,           \* the keypad's glyph shuffle for this opening
    count,             \* buttons.count()
    boxes,             \* boxes[e]: what bounding_box() returned for element e
    button_positions,  \* charge.py:79
    keypad_box,        \* charge.py:96
    screenshots,       \* the clips of the page.screenshot calls made, in order
    idx,               \* index of the recognition loop, charge.py:109
    image,             \* the candidate image being offered to OCR
    cfg,               \* index into configs of the next OCR call
    text,              \* charge.py:117
    result,            \* charge.py:135 and charge.py:145
    number_map,        \* charge.py:104 and charge.py:201
    crops,             \* the crops cut from the screenshot, in order
    ocr_calls,         \* the OCR calls made for the current button, in order
    ocr_called,        \* whether image_to_string has been called at all
    recognized,        \* recognized[e]: the text the loop ended with for element e
    plain_legible,     \* whether OCR reads the glyphs on the unthresholded images
    k,                 \* index of the PIN loop, charge.py:207
    events,            \* page operations, keypad clicks and sleeps, in order
    attempt,           \* the number of the charge_deposit call, from 1
    \* lotto645.py, parse_arguments
    argv,              \* sys.argv[1:], each argument a sequence of characters
    pa_state,          \* "idle", "called", "returned", "exited", "raised"
    pa_return,         \* the tuple returned: <<auto_games, manual_numbers>>
    pa_exit,           \* the status passed to sys.exit
    pa_printed,        \* the lines of the print calls made, in order
    \* login.py, is_logged_in
    url,               \* page.url, a sequence of URL pieces
    entry_url,         \* page.url when is_logged_in was called
    li_pc,             \* position in is_logged_in
    li_ret,            \* is_logged_in's return value: "unset", "True", "False"
    cle_call,          \* which call of check_logged_in_elements: 1 or 2
    cle_step,          \* the is_visible call check_logged_in_elements is at
    page_ops,          \* the calls made on the page, in order
    \* lotto645.py, run
    auto_games,        \* argument of run
    manual_numbers,    \* argument of run, a sequence of games of six numbers
    run_pc,            \* position in run
    game_idx,          \* index of the loop over manual_numbers, lotto645.py:227
    payment_text,      \* lotto645.py:249
    run_ret,           \* the dict run returned
    run_exc,           \* the exception that ended run, or "none"
    calls645,          \* the sr.stage calls and the frame operations, in order
    \* lotto720.py, run and __main__
    pc720,             \* position in run and __main__
    balance_val,       \* lotto720.py:110 and lotto720.py:115
    payment_amount_text, \* lotto720.py:177
    exc720,            \* the exception that ended run, or "none"
    calls720,          \* the sr calls and the frame operations, in order
    exit720            \* the status passed to sys.exit, or None

charge_vars ==
    <<CHARGE_PIN, amount, tesseract_ok, pc, ret, exc, pk_state, printed,
      layout, shuffle, count, boxes, button_positions, keypad_box,
      screenshots, idx, image, cfg, text, result, number_map, crops,
      ocr_calls, ocr_called, recognized, plain_legible, k, events, attempt>>

lotto645_vars == <<argv, pa_state, pa_return, pa_exit, pa_printed>>

login_vars == <<url, entry_url, li_pc, li_ret, cle_call, cle_step, page_ops>>

run645_vars ==
    <<auto_games, manual_numbers, run_pc, game_idx, payment_text, run_ret,
      run_exc, calls645>>

lotto720_vars ==
    <<pc720, balance_val, payment_amount_text, exc720, calls720, exit720>>

\* The two purchase scripts.
purchase_vars == <<run645_vars, lotto720_vars>>

\* What charge.py leaves alone.
outside_charge == <<lotto645_vars, login_vars, purchase_vars>>

vars == <<charge_vars, lotto645_vars, login_vars, purchase_vars>>

----------------------------------------------------------------------------
(* Bounds of the environment.                                              *)

\* The elements 1..MaxWild are rendered arbitrarily: any bounding box, any
\* OCR output.  The others are rendered well: a valid box, the glyph read.
MaxWild == 2

\* The values of CHARGE_PIN tried: unset, and PINs of one, three and four
\* digits, with and without a repeated digit.
Pins == {<<>>, <<"3">>, <<"4", "4", "1">>, <<"1", "2", "3", "4">>}

\* The amounts tried: the three the page offers and one it does not.
Amounts == {5000, 10000, 20000, 15000}

\* The enumeration orders tried: row by row, and the reverse.
Layouts == {"page", "reverse"}

\* The glyph shuffles tried: element 1 shows "3", or element 1 is a control.
Shuffles == {3, 11}

\* The calls of charge_deposit tried: a first, and one more after it.
Attempts == {1, 2}

----------------------------------------------------------------------------
(* Python values.                                                          *)

None == "None"

NoBox == [none |-> TRUE]

\* A variable the program has not assigned yet.
Unassigned == [unassigned |-> TRUE]

AsciiDigits == {"0", "1", "2", "3", "4", "5", "6", "7", "8", "9"}

\* str.isdigit() is true of every Unicode digit, of which "²" stands here.
UnicodeDigits == AsciiDigits \cup {"²"}

Whitespace == {" ", "\n", "\t", "\f"}

RECURSIVE lstrip(_)
lstrip(s) == IF s # <<>> /\ Head(s) \in Whitespace THEN lstrip(Tail(s)) ELSE s

RECURSIVE rstrip(_)
rstrip(s) ==
    IF s # <<>> /\ s[Len(s)] \in Whitespace
    THEN rstrip(SubSeq(s, 1, Len(s) - 1))
    ELSE s

strip(s) == rstrip(lstrip(s))

isdigit(s) == s # <<>> /\ \A j \in 1..Len(s) : s[j] \in UnicodeDigits

----------------------------------------------------------------------------
(* The environment: the keypad the page renders and the OCR engine.        *)

\* charge.py:26, the keypad has 12 buttons: the digits 0-9 and two controls.
KEYPAD_BUTTONS == 12

Counts == (0..MaxWild) \cup {KEYPAD_BUTTONS}

DigitChars == <<"0", "1", "2", "3", "4", "5", "6", "7", "8", "9">>

Wild(e) == e <= MaxWild

\* The glyph drawn on element e: a digit, or "ctl" for a control button.
Glyph(e) ==
    LET g == (e - 1 + shuffle) % KEYPAD_BUTTONS
    IN  IF g < 10 THEN DigitChars[g + 1] ELSE "ctl"

\* The grid cell of element e, cells counted row by row from 0.
Cell(e) == IF layout = "page" THEN e - 1 ELSE count - e

CellBox(c) ==
    [x |-> 100 + (c % 3) * 40, y |-> 200 + (c \div 3) * 40,
     width |-> 40, height |-> 40]

\* What btn.bounding_box() can return for element e.
BoundingBoxes(e) ==
    IF Wild(e)
    THEN {NoBox, [CellBox(Cell(e)) EXCEPT !.width = 0],
          [CellBox(Cell(e)) EXCEPT !.height = 0], CellBox(Cell(e))}
    ELSE {CellBox(Cell(e))}

\* What keypad_layer.bounding_box() can return.
KeypadBoxes ==
    {NoBox,
     [x |-> 100, y |-> 200, width |-> 0, height |-> 160],
     [x |-> 100, y |-> 200, width |-> 120, height |-> 0],
     [x |-> 100, y |-> 200, width |-> 120, height |-> 160]}

\* What the engine can print for a crop of element e: for a wild element
\* nothing, a digit (possibly a misreading), two digits, a letter, a
\* non-ASCII digit; for the others the glyph, and nothing for a control.
CorrectText(e) ==
    IF Glyph(e) = "ctl" THEN {} ELSE {<<Glyph(e), "\n", "\f">>}

OcrTexts(e) ==
    IF Wild(e)
    THEN {<<"\f">>, <<" ", "1", "\n", "\f">>, <<"1", "2", "\n", "\f">>,
          <<"x", "\n", "\f">>, <<"²", "\n", "\f">>} \cup CorrectText(e)
    ELSE IF Glyph(e) = "ctl" THEN {<<"\f">>} ELSE CorrectText(e)

----------------------------------------------------------------------------
(* parse_keypad, charge.py:18-152.                                         *)

\* ValidBox with a fault: the height is not tested.
ValidBoxWidthOnly(box) == box # NoBox /\ box.width > 0

\* charge.py:84
ValidBox(box) == box # NoBox /\ box.width > 0 /\ box.height > 0

\* charge.py:85-91
Position(e, box) ==
    [element |-> e, x |-> box.x, y |-> box.y, w |-> box.width, h |-> box.height]

\* InvalidKeypadBox with a fault: the height is not tested.
InvalidKeypadBoxWidthOnly(box) == box = NoBox \/ box.width = 0

\* charge.py:98
InvalidKeypadBox(box) == box = NoBox \/ box.width = 0 \/ box.height = 0

\* charge.py:107, the sort key (y, x) compared as Python compares tuples
KeyLess(a, b) == a.y < b.y \/ (a.y = b.y /\ a.x < b.x)

\* list.sort is stable: b goes behind every entry whose key is not greater
RECURSIVE Insert(_, _)
Insert(s, b) ==
    IF s = <<>> THEN <<b>>
    ELSE IF KeyLess(b, Head(s)) THEN <<b>> \o s
    ELSE <<Head(s)>> \o Insert(Tail(s), b)

\* SortByYX with a fault: the list is left in enumeration order.
Unsorted(s) == s

RECURSIVE SortByYX(_)
SortByYX(s) ==
    IF s = <<>> THEN <<>>
    ELSE Insert(SortByYX(SubSeq(s, 1, Len(s) - 1)), s[Len(s)])

\* CropBox with a fault: the container's origin is not subtracted.
CropBoxOfPage(b, kb) == <<b.x, b.y, b.x + b.w, b.y + b.h>>

\* charge.py:111-114
CropBox(b, kb) ==
    LET lx == b.x - kb.x
        ly == b.y - kb.y
    IN  <<lx, ly, lx + b.w, ly + b.h>>

\* charge.py:127-131, the page segmentation modes of the three configs
configs == <<10, 7, 8>>

\* charge.py:135 and charge.py:145
SingleDigit(out) == isdigit(out) /\ Len(out) = 1

\* Store with a fault: a later recognition of a digit replaces the earlier.
StoreLastWins(map, t, e) ==
    IF t # None THEN (t :> e) @@ map ELSE map

\* Store with a fault: the text is tested as a number, and "0" is falsy.
StoreDropsZero(map, t, e) ==
    IF t # None /\ t # "0" /\ t \notin DOMAIN map
    THEN (t :> e) @@ map
    ELSE map

\* charge.py:149-150
Store(map, t, e) ==
    IF t # None /\ t \notin DOMAIN map THEN (t :> e) @@ map ELSE map

\* An exception leaves parse_keypad and then charge_deposit, which catches
\* nothing.
Raise(e, in_pk) ==
    /\ exc' = e
    /\ pc' = "done"
    /\ pk_state' = IF in_pk THEN "raised" ELSE pk_state

\* charge.py:60-69
WaitKeypad ==
    /\ pc = "pk_wait"
    /\ \E visible \in BOOLEAN :
          IF visible
          THEN pc' = "pk_count" /\ UNCHANGED <<exc, pk_state>>
          ELSE IF tesseract_ok
               THEN Raise("TimeoutError", TRUE)
               ELSE Raise("TesseractNotAccessible", TRUE)
    /\ UNCHANGED <<CHARGE_PIN, amount, tesseract_ok, ret, printed, layout,
                   shuffle, count, boxes, button_positions, keypad_box,
                   screenshots, idx, image, cfg, text, number_map, crops,
                   ocr_calls, ocr_called, recognized, plain_legible, k,
                   events>>
    /\ UNCHANGED <<result, attempt, outside_charge>>

\* charge.py:72-79
CountButtons ==
    /\ pc = "pk_count"
    /\ \E n \in Counts, l \in Layouts, s \in Shuffles :
          /\ count' = n
          /\ layout' = l
          /\ shuffle' = s
          /\ IF n = 0
             THEN Raise("NoKeypadButtons", TRUE)
             ELSE pc' = "pk_boxes" /\ UNCHANGED <<exc, pk_state>>
    /\ button_positions' = <<>>
    /\ boxes' = <<>>
    /\ UNCHANGED <<CHARGE_PIN, amount, tesseract_ok, ret, printed,
                   keypad_box, screenshots, idx, image, cfg, text,
                   number_map, crops, ocr_calls, ocr_called, recognized,
                   plain_legible, k, events>>
    /\ UNCHANGED <<result, attempt, outside_charge>>

\* charge.py:80-91, one iteration
CollectBox ==
    /\ pc = "pk_boxes"
    /\ LET e == Len(boxes) + 1
       IN  \E box \in BoundingBoxes(e) :
              /\ boxes' = Append(boxes, box)
              /\ button_positions' =
                    IF ValidBox(box)
                    THEN Append(button_positions, Position(e, box))
                    ELSE button_positions
              /\ pc' = IF e = count THEN "pk_capture" ELSE "pk_boxes"
    /\ UNCHANGED <<CHARGE_PIN, amount, tesseract_ok, ret, exc, pk_state,
                   printed, layout, shuffle, count, keypad_box, screenshots,
                   idx, image, cfg, text, number_map, crops, ocr_calls,
                   ocr_called, recognized, plain_legible, k, events>>
    /\ UNCHANGED <<result, attempt, outside_charge>>

\* charge.py:94, in milliseconds
Settle == [op |-> "settle", ms |-> 1000]

\* charge.py:96
BoundingBox(kb) == [op |-> "bounding_box", box |-> kb]

\* charge.py:101-102
Screenshot(kb) == [op |-> "screenshot", clip |-> kb]

\* Capture with a fault: the digit map is not created anew, the dict of the
\* previous call is filled further.
CaptureKeepsMap ==
    /\ pc = "pk_capture"
    /\ \E kb \in KeypadBoxes :
          /\ keypad_box' = kb
          /\ IF InvalidKeypadBox(kb)
             THEN /\ Raise("InvalidKeypadSize", TRUE)
                  /\ events' = events \o <<Settle, BoundingBox(kb)>>
                  /\ UNCHANGED <<screenshots, number_map, button_positions,
                                 idx, plain_legible>>
             ELSE /\ screenshots' = Append(screenshots, kb)
                  /\ events' = events \o <<Settle, BoundingBox(kb),
                                            Screenshot(kb)>>
                  /\ plain_legible' \in BOOLEAN
                  /\ number_map' = number_map
                  /\ button_positions' = SortByYX(button_positions)
                  /\ idx' = 1
                  /\ pc' = IF button_positions = <<>>
                           THEN "pk_return" ELSE "pk_ocr"
                  /\ UNCHANGED <<exc, pk_state>>
    /\ UNCHANGED <<CHARGE_PIN, amount, tesseract_ok, ret, printed, layout,
                   shuffle, count, boxes, image, cfg, text, crops,
                   ocr_calls, ocr_called, recognized, k>>
    /\ UNCHANGED <<result, attempt, outside_charge>>

\* charge.py:94-107
Capture ==
    /\ pc = "pk_capture"
    /\ \E kb \in KeypadBoxes :
          /\ keypad_box' = kb
          /\ IF InvalidKeypadBox(kb)
             THEN /\ Raise("InvalidKeypadSize", TRUE)
                  /\ events' = events \o <<Settle, BoundingBox(kb)>>
                  /\ UNCHANGED <<screenshots, number_map, button_positions,
                                 idx, plain_legible>>
             ELSE /\ screenshots' = Append(screenshots, kb)
                  /\ events' = events \o <<Settle, BoundingBox(kb),
                                            Screenshot(kb)>>
                  /\ plain_legible' \in BOOLEAN
                  /\ number_map' = <<>>
                  /\ button_positions' = SortByYX(button_positions)
                  /\ idx' = 1
                  /\ pc' = IF button_positions = <<>>
                           THEN "pk_return" ELSE "pk_ocr"
                  /\ UNCHANGED <<exc, pk_state>>
    /\ UNCHANGED <<CHARGE_PIN, amount, tesseract_ok, ret, printed, layout,
                   shuffle, count, boxes, image, cfg, text, crops,
                   ocr_calls, ocr_called, recognized, k>>
    /\ UNCHANGED <<result, attempt, outside_charge>>

\* Recognize with a fault: the loop over the configurations has no break,
\* a digit read under the first or second configuration is passed over.
RecognizeNoBreak ==
    /\ pc = "pk_ocr"
    /\ LET b == button_positions[idx]
           e == b.element
           first == Len(crops) < idx
           img == IF first THEN "binary" ELSE image
           c == IF first THEN 1 ELSE cfg
           Finish(t) ==
               /\ text' = t
               /\ number_map' = Store(number_map, t, e)
               /\ recognized' = (e :> t) @@ recognized
               /\ idx' = idx + 1
               /\ pc' = IF idx = Len(button_positions)
                        THEN "pk_return" ELSE "pk_ocr"
               /\ image' = img
               /\ cfg' = c
               /\ UNCHANGED <<exc, pk_state>>
           Continue(i, n) ==
               /\ text' = None
               /\ image' = i
               /\ cfg' = n
               /\ UNCHANGED <<number_map, recognized, idx, pc, exc, pk_state>>
       IN  /\ crops' = IF first
                       THEN Append(crops, [element |-> e,
                                           box |-> CropBox(b, keypad_box)])
                       ELSE crops
           /\ ocr_calls' = Append(IF first THEN <<>> ELSE ocr_calls,
                                  <<img, configs[c]>>)
           /\ ocr_called' = TRUE
           /\ IF ~tesseract_ok
              THEN /\ Raise("TesseractNotFoundError", TRUE)
                   /\ text' = None
                   /\ image' = img
                   /\ cfg' = c
                   /\ UNCHANGED <<result, number_map, recognized, idx>>
              ELSE \E out \in OcrTexts(e) :
                      /\ result' = strip(out)
                      /\ IF SingleDigit(result') /\ c = Len(configs)
                         THEN Finish(result'[1])
                         ELSE IF c < Len(configs) THEN Continue(img, c + 1)
                         ELSE IF img = "binary"
                         THEN Continue("binary_sharp", 1)
                         ELSE Finish(None)
    /\ UNCHANGED <<CHARGE_PIN, amount, tesseract_ok, ret, printed, layout,
                   shuffle, count, boxes, button_positions, keypad_box,
                   screenshots, plain_legible, k, events>>
    /\ UNCHANGED <<attempt, outside_charge>>

\* Recognize with a fault: the sharpened image is never made, the button is
\* given up after the thresholded image.
RecognizeNoSharpen ==
    /\ pc = "pk_ocr"
    /\ LET b == button_positions[idx]
           e == b.element
           first == Len(crops) < idx
           img == IF first THEN "binary" ELSE image
           c == IF first THEN 1 ELSE cfg
           Finish(t) ==
               /\ text' = t
               /\ number_map' = Store(number_map, t, e)
               /\ recognized' = (e :> t) @@ recognized
               /\ idx' = idx + 1
               /\ pc' = IF idx = Len(button_positions)
                        THEN "pk_return" ELSE "pk_ocr"
               /\ image' = img
               /\ cfg' = c
               /\ UNCHANGED <<exc, pk_state>>
           Continue(i, n) ==
               /\ text' = None
               /\ image' = i
               /\ cfg' = n
               /\ UNCHANGED <<number_map, recognized, idx, pc, exc, pk_state>>
       IN  /\ crops' = IF first
                       THEN Append(crops, [element |-> e,
                                           box |-> CropBox(b, keypad_box)])
                       ELSE crops
           /\ ocr_calls' = Append(IF first THEN <<>> ELSE ocr_calls,
                                  <<img, configs[c]>>)
           /\ ocr_called' = TRUE
           /\ IF ~tesseract_ok
              THEN /\ Raise("TesseractNotFoundError", TRUE)
                   /\ text' = None
                   /\ image' = img
                   /\ cfg' = c
                   /\ UNCHANGED <<result, number_map, recognized, idx>>
              ELSE \E out \in OcrTexts(e) :
                      /\ result' = strip(out)
                      /\ IF SingleDigit(result') THEN Finish(result'[1])
                         ELSE IF c < Len(configs) THEN Continue(img, c + 1)
                         ELSE Finish(None)
    /\ UNCHANGED <<CHARGE_PIN, amount, tesseract_ok, ret, printed, layout,
                   shuffle, count, boxes, button_positions, keypad_box,
                   screenshots, plain_legible, k, events>>
    /\ UNCHANGED <<attempt, outside_charge>>

\* charge.py:109-150, one image_to_string call of the recognition loop.
\* The first call for a button follows the button's crop and preprocessing
\* (charge.py:110-131); the call that ends the button's recognition is
\* followed by charge.py:149-150 and the step to the next button.
Recognize ==
    /\ pc = "pk_ocr"
    /\ LET b == button_positions[idx]
           e == b.element
           first == Len(crops) < idx
           img == IF first THEN "binary" ELSE image
           c == IF first THEN 1 ELSE cfg
           Finish(t) ==
               /\ text' = t
               /\ number_map' = Store(number_map, t, e)
               /\ recognized' = (e :> t) @@ recognized
               /\ idx' = idx + 1
               /\ pc' = IF idx = Len(button_positions)
                        THEN "pk_return" ELSE "pk_ocr"
               /\ image' = img
               /\ cfg' = c
               /\ UNCHANGED <<exc, pk_state>>
           Continue(i, n) ==
               /\ text' = None
               /\ image' = i
               /\ cfg' = n
               /\ UNCHANGED <<number_map, recognized, idx, pc, exc, pk_state>>
       IN  /\ crops' = IF first
                       THEN Append(crops, [element |-> e,
                                           box |-> CropBox(b, keypad_box)])
                       ELSE crops
           /\ ocr_calls' = Append(IF first THEN <<>> ELSE ocr_calls,
                                  <<img, configs[c]>>)
           /\ ocr_called' = TRUE
           /\ IF ~tesseract_ok
              THEN /\ Raise("TesseractNotFoundError", TRUE)
                   /\ text' = None
                   /\ image' = img
                   /\ cfg' = c
                   /\ UNCHANGED <<result, number_map, recognized, idx>>
              ELSE \E out \in OcrTexts(e) :
                      /\ result' = strip(out)
                      /\ IF SingleDigit(result') THEN Finish(result'[1])
                         ELSE IF c < Len(configs) THEN Continue(img, c + 1)
                         ELSE IF img = "binary"
                         THEN Continue("binary_sharp", 1)
                         ELSE Finish(None)
    /\ UNCHANGED <<CHARGE_PIN, amount, tesseract_ok, ret, printed, layout,
                   shuffle, count, boxes, button_positions, keypad_box,
                   screenshots, plain_legible, k, events>>
    /\ UNCHANGED <<attempt, outside_charge>>

\* ReturnMap with a fault: a map that lacks a digit is refused.
ReturnMapComplete ==
    /\ pc = "pk_return"
    /\ IF Cardinality(DOMAIN number_map) < 10
       THEN Raise("IncompleteKeypad", TRUE)
       ELSE pk_state' = "returned" /\ pc' = "cd_gate" /\ UNCHANGED exc
    /\ UNCHANGED <<CHARGE_PIN, amount, tesseract_ok, ret, printed,
                   layout, shuffle, count, boxes, button_positions,
                   keypad_box, screenshots, idx, image, cfg, text,
                   number_map, crops, ocr_calls, ocr_called, recognized,
                   plain_legible, k, events>>
    /\ UNCHANGED <<result, attempt, outside_charge>>

\* charge.py:152 and charge.py:201
ReturnMap ==
    /\ pc = "pk_return"
    /\ pk_state' = "returned"
    /\ pc' = "cd_gate"
    /\ UNCHANGED <<CHARGE_PIN, amount, tesseract_ok, ret, exc, printed,
                   layout, shuffle, count, boxes, button_positions,
                   keypad_box, screenshots, idx, image, cfg, text,
                   number_map, crops, ocr_calls, ocr_called, recognized,
                   plain_legible, k, events>>
    /\ UNCHANGED <<result, attempt, outside_charge>>

----------------------------------------------------------------------------
(* charge_deposit, charge.py:154-215.                                      *)

\* amount_map with a fault: 15000 is taken as well.
amount_mapWith15000 == {5000, 10000, 15000, 20000}

\* charge.py:176
amount_map == {5000, 10000, 20000}

\* TooFewDigits with a fault: all ten digits are required.
TooFewDigitsOfTen(map) == Cardinality(DOMAIN map) < 10

\* charge.py:203
TooFewDigits(map) == Cardinality(DOMAIN map) < 9

Click(e) == [op |-> "click", element |-> e]

\* charge.py:210, in milliseconds
Sleep == [op |-> "sleep", ms |-> 300]

\* Press with a fault: no pause after the click.
PressNoPause(e) == <<Click(e)>>

\* charge.py:209-210
Press(e) == <<Click(e), Sleep>>

PageOp(name) == [op |-> name]

ReturnValue(v) ==
    /\ ret' = v
    /\ pc' = "done"

\* charge.py:165-182
CheckInputs ==
    /\ pc = "cd_start"
    /\ IF CHARGE_PIN = <<>>
       THEN /\ printed' = Append(printed, [line |-> 166])
            /\ ReturnValue("False")
            /\ UNCHANGED events
       ELSE IF amount \notin amount_map
       THEN /\ printed' = printed \o <<[line |-> 169, amount |-> amount],
                                       [line |-> 178, amount |-> amount]>>
            /\ events' = events \o <<PageOp("goto"), PageOp("click_easy_charge")>>
            /\ ReturnValue("False")
       ELSE /\ printed' = Append(printed, [line |-> 169, amount |-> amount])
            /\ events' = events \o <<PageOp("goto"), PageOp("click_easy_charge"),
                                     PageOp("select_option")>>
            /\ pc' = "cd_open"
            /\ UNCHANGED ret
    /\ UNCHANGED <<CHARGE_PIN, amount, tesseract_ok, exc, pk_state, layout,
                   shuffle, count, boxes, button_positions, keypad_box,
                   screenshots, idx, image, cfg, text, number_map, crops,
                   ocr_calls, ocr_called, recognized, plain_legible, k>>
    /\ UNCHANGED <<result, attempt, outside_charge>>

\* charge.py:186-201: the charge button is clicked (either locator), the
\* keypad is awaited under either selector, and parse_keypad is called.
OpenKeypad ==
    /\ pc = "cd_open"
    /\ events' = Append(events, PageOp("click_charge"))
    /\ \E shown \in BOOLEAN :
          IF shown
          THEN pc' = "pk_wait" /\ pk_state' = "running" /\ UNCHANGED exc
          ELSE Raise("TimeoutError", FALSE)
    /\ UNCHANGED <<CHARGE_PIN, amount, tesseract_ok, ret, printed, layout,
                   shuffle, count, boxes, button_positions, keypad_box,
                   screenshots, idx, image, cfg, text, number_map, crops,
                   ocr_calls, ocr_called, recognized, plain_legible, k>>
    /\ UNCHANGED <<result, attempt, outside_charge>>

\* charge.py:203-205
Gate ==
    /\ pc = "cd_gate"
    /\ IF TooFewDigits(number_map)
       THEN /\ printed' = Append(printed,
                                 [line |-> 204,
                                  digits |-> Cardinality(DOMAIN number_map)])
            /\ ReturnValue("False")
            /\ UNCHANGED k
       ELSE /\ k' = 1
            /\ pc' = "cd_pin"
            /\ UNCHANGED <<ret, printed>>
    /\ UNCHANGED <<CHARGE_PIN, amount, tesseract_ok, exc, pk_state, layout,
                   shuffle, count, boxes, button_positions, keypad_box,
                   screenshots, idx, image, cfg, text, number_map, crops,
                   ocr_calls, ocr_called, recognized, plain_legible, events>>
    /\ UNCHANGED <<result, attempt, outside_charge>>

\* EnterDigit with a fault: a digit missing from the map is skipped and the
\* entry goes on with the next digit.
EnterDigitSkipsMissing ==
    /\ pc = "cd_pin"
    /\ LET digit == CHARGE_PIN[k]
       IN  events' = IF digit \in DOMAIN number_map
                     THEN events \o Press(number_map[digit])
                     ELSE events
    /\ k' = k + 1
    /\ pc' = IF k = Len(CHARGE_PIN) THEN "cd_idle" ELSE "cd_pin"
    /\ UNCHANGED <<CHARGE_PIN, amount, tesseract_ok, ret, exc, pk_state,
                   printed, layout, shuffle, count, boxes, button_positions,
                   keypad_box, screenshots, idx, image, cfg, text,
                   number_map, crops, ocr_calls, ocr_called, recognized,
                   plain_legible>>
    /\ UNCHANGED <<result, attempt, outside_charge>>

\* EnterDigit with a fault: a digit that was clicked before in this entry
\* is not clicked again.
EnterDigitOncePerDigit ==
    /\ pc = "cd_pin"
    /\ LET digit == CHARGE_PIN[k]
       IN  IF digit \in DOMAIN number_map
           THEN /\ events' = IF \E j \in 1..(k - 1) : CHARGE_PIN[j] = digit
                             THEN events
                             ELSE events \o Press(number_map[digit])
                /\ k' = k + 1
                /\ pc' = IF k = Len(CHARGE_PIN) THEN "cd_idle" ELSE "cd_pin"
                /\ UNCHANGED ret
           ELSE /\ ReturnValue("False")
                /\ UNCHANGED <<events, k>>
    /\ UNCHANGED <<CHARGE_PIN, amount, tesseract_ok, exc, pk_state, printed,
                   layout, shuffle, count, boxes, button_positions,
                   keypad_box, screenshots, idx, image, cfg, text,
                   number_map, crops, ocr_calls, ocr_called, recognized,
                   plain_legible>>
    /\ UNCHANGED <<result, attempt, outside_charge>>

\* charge.py:207-212, one iteration
EnterDigit ==
    /\ pc = "cd_pin"
    /\ LET digit == CHARGE_PIN[k]
       IN  IF digit \in DOMAIN number_map
           THEN /\ events' = events \o Press(number_map[digit])
                /\ k' = k + 1
                /\ pc' = IF k = Len(CHARGE_PIN) THEN "cd_idle" ELSE "cd_pin"
                /\ UNCHANGED ret
           ELSE /\ ReturnValue("False")
                /\ UNCHANGED <<events, k>>
    /\ UNCHANGED <<CHARGE_PIN, amount, tesseract_ok, exc, pk_state, printed,
                   layout, shuffle, count, boxes, button_positions,
                   keypad_box, screenshots, idx, image, cfg, text,
                   number_map, crops, ocr_calls, ocr_called, recognized,
                   plain_legible>>
    /\ UNCHANGED <<result, attempt, outside_charge>>

\* charge.py:214-215
AwaitIdle ==
    /\ pc = "cd_idle"
    /\ events' = Append(events, PageOp("wait_for_load_state"))
    /\ ReturnValue("True")
    /\ UNCHANGED <<CHARGE_PIN, amount, tesseract_ok, exc, pk_state, printed,
                   layout, shuffle, count, boxes, button_positions,
                   keypad_box, screenshots, idx, image, cfg, text,
                   number_map, crops, ocr_calls, ocr_called, recognized,
                   plain_legible, k>>
    /\ UNCHANGED <<result, attempt, outside_charge>>

\* A further call of charge_deposit on the same page, charge.py:154.  The
\* call starts with nothing logged and its locals unbound; number_map is
\* left holding the previous call's dict until the new call assigns it.
NextAttempt ==
    /\ pc = "done"
    /\ attempt + 1 \in Attempts
    /\ attempt' = attempt + 1
    /\ pc' = "cd_start"
    /\ ret' = "unset"
    /\ exc' = "none"
    /\ pk_state' = "not_called"
    /\ printed' = <<>>
    /\ layout' = "page"
    /\ shuffle' = 0
    /\ count' = 0
    /\ boxes' = <<>>
    /\ button_positions' = <<>>
    /\ keypad_box' = Unassigned
    /\ screenshots' = <<>>
    /\ idx' = 0
    /\ image' = "binary"
    /\ cfg' = 1
    /\ text' = None
    /\ result' = Unassigned
    /\ crops' = <<>>
    /\ ocr_calls' = <<>>
    /\ ocr_called' = FALSE
    /\ recognized' = <<>>
    /\ plain_legible' = FALSE
    /\ k' = 0
    /\ events' = <<>>
    /\ UNCHANGED <<CHARGE_PIN, amount, tesseract_ok, number_map>>
    /\ UNCHANGED outside_charge

----------------------------------------------------------------------------
(* parse_arguments, lotto645.py:21-98.                                     *)

\* The most command-line arguments tried.
MaxArgs == 7

\* The exception int() raises on a malformed numeral.
ValueError == [error |-> "ValueError"]

\* The characters int() takes as decimal digits; "²" is a digit to
\* str.isdigit() but not a decimal digit.
DecimalDigits == AsciiDigits

DecimalValue(ch) ==
    CASE ch = "0" -> 0 [] ch = "1" -> 1 [] ch = "2" -> 2 [] ch = "3" -> 3
      [] ch = "4" -> 4 [] ch = "5" -> 5 [] ch = "6" -> 6 [] ch = "7" -> 7
      [] ch = "8" -> 8 [] ch = "9" -> 9

\* A numeral of int(): digits, with single underscores between digits.
WellFormed(s) ==
    /\ s # <<>>
    /\ \A j \in 1..Len(s) : s[j] \in DecimalDigits \cup {"_"}
    /\ s[1] # "_"
    /\ s[Len(s)] # "_"
    /\ \A j \in 1..(Len(s) - 1) : s[j] = "_" => s[j + 1] # "_"

RECURSIVE Value(_)
Value(s) ==
    IF s = <<>> THEN 0
    ELSE LET rest == SubSeq(s, 1, Len(s) - 1)
         IN  IF s[Len(s)] = "_" THEN Value(rest)
             ELSE 10 * Value(rest) + DecimalValue(s[Len(s)])

\* int(s) of a string: surrounding whitespace is dropped, one sign is
\* allowed, and what is left must be a numeral.
int(s) ==
    LET t == strip(s)
        signed == t # <<>> /\ t[1] \in {"+", "-"}
        body == IF signed THEN Tail(t) ELSE t
    IN  IF WellFormed(body)
        THEN [value |-> IF signed /\ t[1] = "-"
                        THEN 0 - Value(body) ELSE Value(body)]
        ELSE ValueError

\* RemoveCommas with a fault: the commas stay.
RemoveCommasKept(s) == s

\* lotto645.py:44, str.replace(',', '')
RemoveCommas(s) == SelectSeq(s, LAMBDA ch : ch # ",")

\* json.loads of the values of MANUAL_NUMBERS tried; a malformed text
\* raises json.JSONDecodeError, which is a ValueError.
json_loads(t) ==
    CASE t = "[]" -> [value |-> <<>>]
      [] t = "[[1, 2, 3, 4, 5, 6]]" -> [value |-> << <<1, 2, 3, 4, 5, 6>> >>]
      [] t = "[1, 2" -> ValueError

\* environ.get('AUTO_GAMES', '0'): unset, a number, not a number.
AutoGamesEnv == {<<"0">>, <<"3">>, <<"x">>}

\* environ.get('MANUAL_NUMBERS', '[]'): unset, one game, malformed.
ManualNumbersEnv == {"[]", "[[1, 2, 3, 4, 5, 6]]", "[1, 2"}

\* The single arguments tried as amounts.
AmountArgs ==
    {<<"1", "0", "0", "0">>, <<"3", ",", "0", "0", "0">>,
     <<"5", "0", "0", "0">>, <<"6", "0", "0", "0">>,
     <<"1", "5", "0", "0">>, <<"0">>, <<" ", "2", "0", "0", "0">>,
     <<"+", "4", "0", "0", "0">>, <<"-", "1", "0", "0", "0">>,
     <<"1", "_", "0", "0", "0">>, <<"²", "0", "0", "0">>,
     <<"5", ",", "0", "0", "0", "0">>, <<",", "2", ",", "0", "0", "0", ",">>,
     <<"2", "0", "0", "0", ".", "0">>, <<"a", "b", "c">>, <<",">>, <<>>}

\* The arguments tried as lottery numbers.
NumberArgs ==
    {<<"1">>, <<"2">>, <<"7">>, <<"4", "5">>, <<"4", "6">>, <<"0">>,
     <<"-", "1">>, <<"+", "7">>, <<"0", "7">>, <<"4", "_", "5">>,
     <<" ", "8">>, <<"1", ",", "0">>, <<"x">>, <<>>}

\* The q-th argument of the plain command lines: "1", "2", "3", ...
BaseArg(q) == <<DigitChars[(q % 10) + 1]>>

\* The command lines tried: none, every single argument, and 2..MaxArgs
\* arguments "1", "2", ... with up to two of them replaced.
Argvs ==
    {<<>>}
    \cup {<<a>> : a \in AmountArgs \cup NumberArgs}
    \cup UNION {{[q \in 1..n |-> IF q = i THEN a
                                 ELSE IF q = j THEN b ELSE BaseArg(q)] :
                    i \in 1..n, j \in 1..n, a \in NumberArgs, b \in NumberArgs} :
                n \in 2..MaxArgs}

Return645(value, lines) ==
    /\ pa_state' = "returned"
    /\ pa_return' = value
    /\ pa_printed' = lines
    /\ UNCHANGED pa_exit

Exit645(status, lines) ==
    /\ pa_state' = "exited"
    /\ pa_exit' = status
    /\ pa_printed' = lines
    /\ UNCHANGED pa_return

\* lotto645.py:33-98
parse_arguments ==
    /\ pa_state = "called"
    /\ IF Len(argv) = 0
       THEN \E a \in AutoGamesEnv, m \in ManualNumbersEnv :
               LET auto == int(a)
                   manual == json_loads(m)
               IN  IF auto = ValueError \/ manual = ValueError
                   THEN /\ pa_state' = "raised"
                        /\ UNCHANGED <<pa_return, pa_exit, pa_printed>>
                   ELSE Return645(<<auto.value, manual.value>>, <<>>)
       ELSE IF Len(argv) = 1
       THEN LET amt == int(RemoveCommas(argv[1]))
            IN  IF amt = ValueError THEN Exit645(1, <<58>>)
                ELSE IF amt.value \in {1000, 2000, 3000, 4000, 5000}
                THEN Return645(<<amt.value \div 1000, <<>> >>, <<51>>)
                ELSE Exit645(1, <<54, 55>>)
       ELSE IF Len(argv) = 6
       THEN LET parsed == [q \in 1..6 |-> int(argv[q])]
                numbers == [q \in 1..6 |-> parsed[q].value]
            IN  IF \E q \in 1..6 : parsed[q] = ValueError
                THEN Exit645(1, <<84, 85>>)
                ELSE IF ~ \A q \in 1..6 : 1 <= numbers[q] /\ numbers[q] <= 45
                THEN Exit645(1, <<68, 69>>)
                ELSE IF Cardinality({numbers[q] : q \in 1..6}) # 6
                THEN Exit645(1, <<74, 75>>)
                ELSE Return645(<<0, <<numbers>> >>, <<80>>)
       ELSE Exit645(1, <<89, 90, 91, 92, 93, 94, 95, 96, 97>>)
    /\ UNCHANGED <<argv, charge_vars, login_vars, purchase_vars>>

----------------------------------------------------------------------------
(* is_logged_in and check_logged_in_elements, login.py:62-120.             *)
(*                                                                         *)
(* A URL is the sequence of its pieces, cut so that every string the code  *)
(* searches for is a run of whole pieces; `needle in page.url` is then     *)
(* the search of that run.  Each is_visible call returns what the page     *)
(* shows at that moment, or fails.                                         *)

ABOUT_BLANK == <<"about:blank">>

\* login.py:109
MAIN_URL ==
    <<"https://", "www.", "dhlottery.co.kr", "/", "common.do?", "method=",
      "main">>

MOBILE_URL == <<"https://", "m.", "dhlottery.co.kr", "/">>

LOGIN_URL ==
    <<"https://", "www.", "dhlottery.co.kr", "/", "user.do?", "method=",
      "login">>

\* The pages is_logged_in can be called on: a fresh page, the main page,
\* the mobile site, the two login pages, a game page, the my-page, and a
\* page of another site.
Urls ==
    {ABOUT_BLANK, MAIN_URL, MOBILE_URL, LOGIN_URL,
     <<"https://", "www.", "dhlottery.co.kr", "/", "login">>,
     <<"https://", "el.", "dhlottery.co.kr", "/", "game", "/",
       "TotalGame.jsp">>,
     <<"https://", "www.", "dhlottery.co.kr", "/", "mypage", "/", "home">>,
     <<"https://", "example.com", "/">>}

\* Where page.goto of the main page can land: the main page, or a redirect
\* to the mobile site or to the login page.
GotoLandings == {MAIN_URL, MOBILE_URL, LOGIN_URL}

\* `needle in u`
Contains(u, needle) ==
    \E i \in 1..(Len(u) - Len(needle) + 1) :
        SubSeq(u, i, i + Len(needle) - 1) = needle

\* login.py:66, 69, 74, 77: the locators check_logged_in_elements tests
CleLocators == <<"logout_button", "logout_text", "login_link", "login_button">>

IsVisibleOp(locator) == [op |-> "is_visible", locator |-> locator]

GotoOp(u) == [op |-> "goto", url |-> u]

LiReturn(v) ==
    /\ li_ret' = v
    /\ li_pc' = "li_done"

\* login.py:96-99
CheckMobile ==
    /\ li_pc = "li_start"
    /\ IF Contains(url, <<"m.", "dhlottery.co.kr">>)
       THEN LiReturn("False") /\ UNCHANGED <<cle_call, cle_step>>
       ELSE /\ li_pc' = "cle"
            /\ cle_call' = 1
            /\ cle_step' = 1
            /\ UNCHANGED li_ret
    /\ UNCHANGED <<url, entry_url, page_ops, charge_vars, lotto645_vars,
                   purchase_vars>>

\* login.py:64-85, one is_visible call of check_logged_in_elements, and
\* with its last call the caller's test of the value returned
\* (login.py:99-100 and login.py:111-112).  A logout indicator seen
\* returns True; a login indicator seen, none seen, or a failing call
\* returns False.
IsVisible ==
    /\ li_pc = "cle"
    /\ page_ops' = Append(page_ops, IsVisibleOp(CleLocators[cle_step]))
    /\ \E outcome \in {"visible", "hidden", "error"} :
          IF outcome = "hidden" /\ cle_step < Len(CleLocators)
          THEN /\ cle_step' = cle_step + 1
               /\ UNCHANGED <<li_pc, li_ret, cle_call>>
          ELSE IF outcome = "visible" /\ cle_step <= 2
          THEN LiReturn("True") /\ UNCHANGED <<cle_call, cle_step>>
          ELSE /\ li_pc' = IF cle_call = 1 THEN "li_urls" ELSE "li_link"
               /\ UNCHANGED <<li_ret, cle_call, cle_step>>
    /\ UNCHANGED <<url, entry_url, charge_vars, lotto645_vars, purchase_vars>>

\* login.py:107, the negation of the condition of the navigation
IsOnMainPage(u) ==
    /\ u # ABOUT_BLANK
    /\ Contains(u, <<"dhlottery.co.kr">>)
    /\ Contains(u, <<"common.do?", "method=", "main">>)

\* login.py:103-109; a navigation that times out raises, and is_logged_in
\* returns False (login.py:119-120)
CheckUrl ==
    /\ li_pc = "li_urls"
    /\ IF Contains(url, <<"/", "login">>) \/ Contains(url, <<"method=", "login">>)
       THEN LiReturn("False") /\ UNCHANGED <<url, page_ops, cle_call, cle_step>>
       ELSE IF IsOnMainPage(url)
       THEN /\ li_pc' = "cle"
            /\ cle_call' = 2
            /\ cle_step' = 1
            /\ UNCHANGED <<url, page_ops, li_ret>>
       ELSE /\ page_ops' = Append(page_ops, GotoOp(MAIN_URL))
            /\ \E committed \in BOOLEAN, landed \in GotoLandings :
                  IF ~committed
                  THEN LiReturn("False") /\ UNCHANGED <<url, cle_call, cle_step>>
                  ELSE /\ url' = landed
                       /\ li_pc' = "cle"
                       /\ cle_call' = 2
                       /\ cle_step' = 1
                       /\ UNCHANGED li_ret
    /\ UNCHANGED <<entry_url, charge_vars, lotto645_vars, purchase_vars>>

\* login.py:115-120
CheckLoginLink ==
    /\ li_pc = "li_link"
    /\ page_ops' = Append(page_ops, IsVisibleOp("login_link"))
    /\ LiReturn("False")
    /\ UNCHANGED <<url, entry_url, cle_call, cle_step, charge_vars,
                   lotto645_vars, purchase_vars>>

----------------------------------------------------------------------------
(* run of lotto645.py, lotto645.py:101-282.                                *)
(*                                                                         *)
(* The page is the environment: every navigation, wait and click either    *)
(* succeeds or raises, and the text of #payAmt is chosen when it is read.  *)
(* A click that raises was not made and is not logged.  The browser that   *)
(* the cleanup of lotto645.py:279-282 closes is not held in the state.     *)

\* The most manual games tried.
MaxManual == 2

\* The g-th manual game tried: g, g+6, ..., g+30.
Game(g) == [i \in 1..6 |-> g + 6 * (i - 1)]

\* The values of manual_numbers tried: no game, and 1..MaxManual games.
ManualNumbers == {[g \in 1..n |-> Game(g)] : n \in 0..MaxManual}

\* The values of auto_games tried: of those parse_arguments returns from
\* the command line (0..5), and one that only AUTO_GAMES can give.
AutoGames == {-1, 0, 1, 2, 5}

\* The character U+C6D0 (won), which the page may put after an amount.
Won == "won"

\* How the page writes n thousand won.
Thousands(n) ==
    IF n = 0 THEN <<"0">> ELSE <<DigitChars[n + 1], ",", "0", "0", "0">>

\* The texts in which the page may show n thousand won: with the thousands
\* separator, with the unit, surrounded by whitespace, and plain.
Renderings(n) ==
    {Thousands(n),
     Thousands(n) \o <<Won>>,
     <<" ">> \o Thousands(n) \o <<" ", Won, "\n">>,
     SelectSeq(Thousands(n), LAMBDA ch : ch # ",")}

\* The texts of #payAmt tried: the amounts of 0..MaxManual+5 games, and
\* texts that show no amount.
PaymentTexts ==
    UNION {Renderings(n) : n \in 0..(MaxManual + 5)}
        \cup {<<>>, <<Won>>, <<" ", "\n">>}

\* lotto645.py:250, re.sub(r'[^0-9]', '', s)
OnlyDigits(s) == SelectSeq(s, LAMBDA ch : ch \in AsciiDigits)

SrStage(name) == [op |-> "sr.stage", name |-> name]

FrameClick(locator) == [op |-> "click", locator |-> locator]

\* lotto645.py:230
LabelClick(number) ==
    [op |-> "click", locator |-> "label[for=check645num{number}]",
     number |-> number]

FrameSelect(locator, value) ==
    [op |-> "select_option", locator |-> locator, value |-> value]

\* lotto645.py:229-231, the clicks that add one manual game
AddGame(game) ==
    [i \in 1..7 |-> IF i <= 6 THEN LabelClick(game[i])
                    ELSE FrameClick("#btnSelectNum")]

\* lotto645.py:235-237, the operations that add the automatic games
AddAuto(n) ==
    <<FrameClick("#num2"), FrameSelect("#amoundApply", n),
      FrameClick("#btnSelectNum")>>

\* total_games with a fault: the manual games are not counted.
total_gamesAutoOnly == auto_games

\* lotto645.py:241
total_games == Len(manual_numbers) + auto_games

\* lotto645.py:251
expected_amount == total_games * 1000

\* An exception leaves run.
Raise645(e) ==
    /\ run_exc' = e
    /\ run_pc' = "raised"
    /\ UNCHANGED run_ret

\* lotto645.py:244 and lotto645.py:276
RunReturn645(n) ==
    /\ run_ret' = [processed_count |-> n]
    /\ run_pc' = "returned"
    /\ UNCHANGED run_exc

Goto645(to) ==
    /\ run_pc' = to
    /\ UNCHANGED <<run_ret, run_exc>>

\* lotto645.py:132-138; login raises when it fails.
Login645 ==
    /\ run_pc = "login"
    /\ \E logged \in BOOLEAN, ok \in BOOLEAN :
          IF logged
          THEN Goto645("navigate") /\ UNCHANGED calls645
          ELSE /\ calls645' = Append(calls645, SrStage("LOGIN"))
               /\ IF ok THEN Goto645("navigate") ELSE Raise645("LoginError")
    /\ UNCHANGED <<auto_games, manual_numbers, game_idx, payment_text>>
    /\ UNCHANGED <<charge_vars, lotto645_vars, login_vars, lotto720_vars>>

\* lotto645.py:141-163: a failure of the priming navigation is passed
\* over; the navigation to the game page may raise; a redirection to the
\* login page is answered with a login and a second navigation, either of
\* which may raise.
Navigate645 ==
    /\ run_pc = "navigate"
    /\ \E outcome \in {"arrived", "goto_raises", "redirected",
                       "relogin_raises", "regoto_raises"} :
          /\ calls645' =
               calls645 \o <<SrStage("NAVIGATE")>>
                   \o IF outcome \in {"redirected", "relogin_raises",
                                      "regoto_raises"}
                      THEN <<SrStage("RELOGIN")>> ELSE <<>>
          /\ CASE outcome \in {"arrived", "redirected"} -> Goto645("frame")
               [] outcome \in {"goto_raises", "regoto_raises"} ->
                     Raise645("TimeoutError")
               [] outcome = "relogin_raises" -> Raise645("LoginError")
    /\ UNCHANGED <<auto_games, manual_numbers, game_idx, payment_text>>
    /\ UNCHANGED <<charge_vars, lotto645_vars, login_vars, lotto720_vars>>

\* lotto645.py:166-226: the game frame is awaited, with one retry that may
\* raise; the login check in the frame may log in again and passes over
\* every failure; the numbers are then to be selected.
LoadFrame645 ==
    /\ run_pc = "frame"
    /\ \E outcome \in {"loaded", "loaded_relogin", "retry_raises"} :
          CASE outcome = "retry_raises" ->
                  /\ calls645' = Append(calls645, SrStage("IFRAME_LOAD"))
                  /\ Raise645("TimeoutError")
                  /\ UNCHANGED game_idx
            [] OTHER ->
                  /\ calls645' =
                       calls645 \o <<SrStage("IFRAME_LOAD")>>
                           \o (IF outcome = "loaded_relogin"
                               THEN <<SrStage("RELOGIN_FRAME")>> ELSE <<>>)
                           \o <<SrStage("SELECT_NUMBERS")>>
                  /\ IF Len(manual_numbers) > 0
                     THEN Goto645("manual") /\ game_idx' = 1
                     ELSE Goto645("auto") /\ UNCHANGED game_idx
    /\ UNCHANGED <<auto_games, manual_numbers, payment_text>>
    /\ UNCHANGED <<charge_vars, lotto645_vars, login_vars, lotto720_vars>>

\* lotto645.py:227-231, one iteration: the clicks are made in order until
\* one raises.
SelectManual ==
    /\ run_pc = "manual"
    /\ \E made \in 0..7 :
          /\ calls645' =
               calls645 \o SubSeq(AddGame(manual_numbers[game_idx]), 1, made)
          /\ IF made < 7
             THEN Raise645("TimeoutError") /\ UNCHANGED game_idx
             ELSE /\ game_idx' = game_idx + 1
                  /\ Goto645(IF game_idx = Len(manual_numbers)
                             THEN "auto" ELSE "manual")
    /\ UNCHANGED <<auto_games, manual_numbers, payment_text>>
    /\ UNCHANGED <<charge_vars, lotto645_vars, login_vars, lotto720_vars>>

\* lotto645.py:234-238
SelectAuto ==
    /\ run_pc = "auto"
    /\ IF auto_games > 0
       THEN \E made \in 0..3 :
               /\ calls645' = calls645 \o SubSeq(AddAuto(auto_games), 1, made)
               /\ IF made < 3
                  THEN Raise645("TimeoutError")
                  ELSE Goto645("games")
       ELSE Goto645("games") /\ UNCHANGED calls645
    /\ UNCHANGED <<auto_games, manual_numbers, game_idx, payment_text>>
    /\ UNCHANGED <<charge_vars, lotto645_vars, login_vars, lotto720_vars>>

\* lotto645.py:241-244
CheckGames ==
    /\ run_pc = "games"
    /\ IF total_games = 0
       THEN RunReturn645(0)
       ELSE Goto645("payment")
    /\ UNCHANGED <<auto_games, manual_numbers, game_idx, payment_text,
                   calls645>>
    /\ UNCHANGED <<charge_vars, lotto645_vars, login_vars, lotto720_vars>>

\* lotto645.py:247-257; inner_text may raise, and int raises ValueError on
\* a text without a digit.
VerifyPayment ==
    /\ run_pc = "payment"
    /\ \E read \in BOOLEAN, t \in PaymentTexts :
          IF ~read
          THEN Raise645("TimeoutError") /\ UNCHANGED <<payment_text, calls645>>
          ELSE /\ payment_text' = strip(t)
               /\ LET payment_amount == int(OnlyDigits(strip(t)))
                  IN  IF payment_amount = ValueError
                      THEN Raise645("ValueError") /\ UNCHANGED calls645
                      ELSE IF payment_amount.value # expected_amount
                      THEN Raise645("Payment mismatch") /\ UNCHANGED calls645
                      ELSE /\ calls645' = Append(calls645, SrStage("PURCHASE"))
                           /\ Goto645("buy")
    /\ UNCHANGED <<auto_games, manual_numbers, game_idx>>
    /\ UNCHANGED <<charge_vars, lotto645_vars, login_vars, lotto720_vars>>

\* lotto645.py:258
Buy ==
    /\ run_pc = "buy"
    /\ \E clicked \in BOOLEAN :
          IF clicked
          THEN /\ calls645' = Append(calls645, FrameClick("#btnBuy"))
               /\ Goto645("confirm")
          ELSE Raise645("TimeoutError") /\ UNCHANGED calls645
    /\ UNCHANGED <<auto_games, manual_numbers, game_idx, payment_text>>
    /\ UNCHANGED <<charge_vars, lotto645_vars, login_vars, lotto720_vars>>

\* lotto645.py:261
Confirm ==
    /\ run_pc = "confirm"
    /\ \E clicked \in BOOLEAN :
          IF clicked
          THEN /\ calls645' = Append(calls645,
                                     FrameClick("#popupLayerConfirm input"))
               /\ Goto645("result")
          ELSE Raise645("TimeoutError") /\ UNCHANGED calls645
    /\ UNCHANGED <<auto_games, manual_numbers, game_idx, payment_text>>
    /\ UNCHANGED <<charge_vars, lotto645_vars, login_vars, lotto720_vars>>

\* lotto645.py:265-276
CheckResult ==
    /\ run_pc = "result"
    /\ calls645' = Append(calls645, SrStage("CHECK_RESULT"))
    /\ \E limit_popup \in BOOLEAN :
          IF limit_popup
          THEN Raise645("Weekly purchase limit exceeded")
          ELSE RunReturn645(total_games)
    /\ UNCHANGED <<auto_games, manual_numbers, game_idx, payment_text>>
    /\ UNCHANGED <<charge_vars, lotto645_vars, login_vars, lotto720_vars>>

----------------------------------------------------------------------------
(* run and __main__ of lotto720.py, lotto720.py:18-214.                    *)
(*                                                                         *)
(* As in lotto645.py the page is the environment, and a click that raises  *)
(* was not made and is not logged.                                         *)

\* The values of the hidden input #curdeposit tried: none, 0, 5000, 12000.
HiddenBalances ==
    {<<>>, <<"0">>, <<"5", "0", "0", "0">>, <<"1", "2", "0", "0", "0">>}

\* The texts of .lpdeposit tried.
BalanceTexts ==
    {<<"5", ",", "0", "0", "0", Won>>, <<" ", "7", ",", "0", "0", "0", " ", Won, "\n">>,
     <<"0", Won>>, <<>>, <<"-">>}

\* lotto720.py:115, replace(",", "").replace(won, "").strip()
BalanceOfText(s) == strip(SelectSeq(s, LAMBDA ch : ch \notin {",", Won}))

\* The texts of .lotto720_price.lpcurpay tried: 0, 4000, 5000 and 6000
\* won, and texts that show no amount.
PaymentTexts720 ==
    UNION {Renderings(n) : n \in {0, 4, 5, 6}} \cup {<<>>, <<Won>>}

\* lotto720.py:178, int(re.sub(r'[^0-9]', '', s) or '0')
payment_val(s) ==
    LET digits == OnlyDigits(s)
    IN  int(IF digits = <<>> THEN <<"0">> ELSE digits).value

Line720(n) == [op |-> "print", line |-> n]

SrSuccess(details) == [op |-> "sr.success", details |-> details]

SrFail == [op |-> "sr.fail"]

\* An exception leaves run, lotto720.py:198-200.
Raise720(e) ==
    /\ exc720' = e
    /\ pc720' = "raised"

Goto720(to) ==
    /\ pc720' = to
    /\ UNCHANGED exc720

\* lotto720.py:42-49; login raises when it fails.
Login720 ==
    /\ pc720 = "login"
    /\ \E logged \in BOOLEAN, ok \in BOOLEAN :
          IF logged
          THEN /\ calls720' = Append(calls720, SrStage("NAVIGATE"))
               /\ Goto720("navigate")
          ELSE IF ok
          THEN /\ calls720' = calls720 \o <<SrStage("LOGIN"), SrStage("NAVIGATE")>>
               /\ Goto720("navigate")
          ELSE /\ calls720' = Append(calls720, SrStage("LOGIN"))
               /\ Raise720("LoginError")
    /\ UNCHANGED <<balance_val, payment_amount_text, exit720>>
    /\ UNCHANGED <<charge_vars, lotto645_vars, login_vars, run645_vars>>

\* lotto720.py:53-95: the navigation to the game page, a login and a
\* second navigation when the session was lost, and the wait for the game
\* frame with one retry; each of them may raise.
Navigate720 ==
    /\ pc720 = "navigate"
    /\ \E outcome \in {"arrived", "relogin_raises", "raises"} :
          CASE outcome = "arrived" -> Goto720("session")
            [] outcome = "relogin_raises" -> Raise720("LoginError")
            [] outcome = "raises" -> Raise720("TimeoutError")
    /\ UNCHANGED <<balance_val, payment_amount_text, calls720, exit720>>
    /\ UNCHANGED <<charge_vars, lotto645_vars, login_vars, run645_vars>>

\* lotto720.py:100-126
VerifySession ==
    /\ pc720 = "session"
    /\ \E user_id_val \in BOOLEAN, hidden \in HiddenBalances,
          shown \in BalanceTexts :
          IF ~ user_id_val
          THEN Raise720("Session lost") /\ UNCHANGED balance_val
          ELSE LET val == IF hidden = <<>> THEN BalanceOfText(shown)
                          ELSE hidden
                   parsed == int(val)
                   current_balance ==
                       IF parsed = ValueError THEN 0 ELSE parsed.value
               IN  /\ balance_val' = val
                   /\ IF current_balance = 0
                      THEN Raise720("Deposit is 0 KRW")
                      ELSE Goto720("popup")
    /\ UNCHANGED <<payment_amount_text, calls720, exit720>>
    /\ UNCHANGED <<charge_vars, lotto645_vars, login_vars, run645_vars>>

\* lotto720.py:129-160: the alert popup is dismissed when it is shown, and
\* the game's buttons are awaited.
DismissPopup ==
    /\ pc720 = "popup"
    /\ \E outcome \in {"no_popup", "dismissed", "raises"} :
          CASE outcome = "no_popup" ->
                  Goto720("pick") /\ UNCHANGED calls720
            [] outcome = "dismissed" ->
                  /\ calls720' = Append(calls720, FrameClick("#popupLayerAlert button"))
                  /\ Goto720("pick")
            [] outcome = "raises" ->
                  Raise720("TimeoutError") /\ UNCHANGED calls720
    /\ UNCHANGED <<balance_val, payment_amount_text, exit720>>
    /\ UNCHANGED <<charge_vars, lotto645_vars, login_vars, run645_vars>>

\* lotto720.py:163-169: the clicks are made in order until one raises.
PickNumbers ==
    /\ pc720 = "pick"
    /\ \E made \in 0..2 :
          /\ calls720' =
               calls720 \o <<SrStage("PURCHASE")>>
                   \o SubSeq(<<FrameClick(".lotto720_btn_auto_number"),
                               FrameClick(".lotto720_btn_confirm_number")>>,
                             1, made)
          /\ IF made < 2 THEN Raise720("TimeoutError") ELSE Goto720("amount")
    /\ UNCHANGED <<balance_val, payment_amount_text, exit720>>
    /\ UNCHANGED <<charge_vars, lotto645_vars, login_vars, run645_vars>>

\* lotto720.py:174-182: on a mismatch run prints and returns.
VerifyAmount ==
    /\ pc720 = "amount"
    /\ \E read \in BOOLEAN, t \in PaymentTexts720 :
          IF ~ read
          THEN /\ Raise720("TimeoutError")
               /\ UNCHANGED <<payment_amount_text, calls720>>
          ELSE /\ payment_amount_text' = strip(t)
               /\ IF payment_val(strip(t)) # 5000
                  THEN /\ calls720' = Append(calls720, Line720(181))
                       /\ Goto720("returned")
                  ELSE Goto720("buy") /\ UNCHANGED calls720
    /\ UNCHANGED <<balance_val, exit720>>
    /\ UNCHANGED <<charge_vars, lotto645_vars, login_vars, run645_vars>>

\* lotto720.py:185
Buy720 ==
    /\ pc720 = "buy"
    /\ \E clicked \in BOOLEAN :
          IF clicked
          THEN /\ calls720' = Append(calls720, FrameClick("a:has-text(buy)"))
               /\ Goto720("popup_confirm")
          ELSE Raise720("TimeoutError") /\ UNCHANGED calls720
    /\ UNCHANGED <<balance_val, payment_amount_text, exit720>>
    /\ UNCHANGED <<charge_vars, lotto645_vars, login_vars, run645_vars>>

\* lotto720.py:188-195: the confirmation popup is awaited and its button
\* clicked.
ConfirmPurchase ==
    /\ pc720 = "popup_confirm"
    /\ \E outcome \in {"clicked", "no_popup", "click_raises"} :
          IF outcome = "clicked"
          THEN /\ calls720' =
                    calls720 \o <<FrameClick("#lotto720_popup_confirm a.btn_blue"),
                                  Line720(195)>>
               /\ Goto720("returned")
          ELSE Raise720("TimeoutError") /\ UNCHANGED calls720
    /\ UNCHANGED <<balance_val, payment_amount_text, exit720>>
    /\ UNCHANGED <<charge_vars, lotto645_vars, login_vars, run645_vars>>

\* lotto720.py:208-214
Main720 ==
    /\ pc720 \in {"returned", "raised"}
    /\ IF pc720 = "returned"
       THEN /\ calls720' = Append(calls720, SrSuccess([processed_count |-> 5]))
            /\ UNCHANGED exit720
       ELSE /\ calls720' = Append(calls720, SrFail)
            /\ exit720' = 1
    /\ pc720' = "exited"
    /\ UNCHANGED <<balance_val, payment_amount_text, exc720>>
    /\ UNCHANGED <<charge_vars, lotto645_vars, login_vars, run645_vars>>

----------------------------------------------------------------------------
(* The specifications.                                                     *)

\* charge.py has not been started.
IdleCharge ==
    /\ CHARGE_PIN = <<>>
    /\ amount = 10000
    /\ tesseract_ok = TRUE
    /\ pc = "idle"
    /\ ret = "unset"
    /\ exc = "none"
    /\ pk_state = "not_called"
    /\ printed = <<>>
    /\ layout = "page"
    /\ shuffle = 0
    /\ count = 0
    /\ boxes = <<>>
    /\ button_positions = <<>>
    /\ keypad_box = Unassigned
    /\ screenshots = <<>>
    /\ idx = 0
    /\ image = "binary"
    /\ cfg = 1
    /\ text = None
    /\ result = Unassigned
    /\ number_map = <<>>
    /\ crops = <<>>
    /\ ocr_calls = <<>>
    /\ ocr_called = FALSE
    /\ recognized = <<>>
    /\ plain_legible = FALSE
    /\ k = 0
    /\ events = <<>>
    /\ attempt = 1

\* lotto645.py has not been started.
Idle645 ==
    /\ argv = <<>>
    /\ pa_state = "idle"
    /\ pa_return = Unassigned
    /\ pa_exit = None
    /\ pa_printed = <<>>

\* is_logged_in has not been called.
IdleLogin ==
    /\ url = ABOUT_BLANK
    /\ entry_url = ABOUT_BLANK
    /\ li_pc = "idle"
    /\ li_ret = "unset"
    /\ cle_call = 0
    /\ cle_step = 0
    /\ page_ops = <<>>

\* run of lotto645.py has not been called.
IdleRun645 ==
    /\ auto_games = 0
    /\ manual_numbers = <<>>
    /\ run_pc = "idle"
    /\ game_idx = 0
    /\ payment_text = Unassigned
    /\ run_ret = Unassigned
    /\ run_exc = "none"
    /\ calls645 = <<>>

\* lotto720.py has not been started.
Idle720 ==
    /\ pc720 = "idle"
    /\ balance_val = Unassigned
    /\ payment_amount_text = Unassigned
    /\ exc720 = "none"
    /\ calls720 = <<>>
    /\ exit720 = None

\* charge_deposit called once, charge.py:237.
Init ==
    /\ CHARGE_PIN \in Pins
    /\ amount \in Amounts
    /\ tesseract_ok \in BOOLEAN
    /\ pc = "cd_start"
    /\ ret = "unset"
    /\ exc = "none"
    /\ pk_state = "not_called"
    /\ printed = <<>>
    /\ layout = "page"
    /\ shuffle = 0
    /\ count = 0
    /\ boxes = <<>>
    /\ button_positions = <<>>
    /\ keypad_box = Unassigned
    /\ screenshots = <<>>
    /\ idx = 0
    /\ image = "binary"
    /\ cfg = 1
    /\ text = None
    /\ result = Unassigned
    /\ number_map = <<>>
    /\ crops = <<>>
    /\ ocr_calls = <<>>
    /\ ocr_called = FALSE
    /\ recognized = <<>>
    /\ plain_legible = FALSE
    /\ k = 0
    /\ events = <<>>
    /\ attempt = 1
    /\ Idle645
    /\ IdleLogin
    /\ IdleRun645
    /\ Idle720

Next ==
    \/ CheckInputs
    \/ OpenKeypad
    \/ WaitKeypad
    \/ CountButtons
    \/ CollectBox
    \/ Capture
    \/ Recognize
    \/ ReturnMap
    \/ Gate
    \/ EnterDigit
    \/ AwaitIdle

Spec == Init /\ [][Next]_vars

\* charge_deposit called once with a PIN and an amount that pass its
\* checks, so that every run comes to the decoder.
InitDecode ==
    /\ Init
    /\ CHARGE_PIN = <<"1", "2", "3", "4">>
    /\ amount = 5000

SpecDecode == InitDecode /\ [][Next]_vars

\* charge_deposit called again after it has ended, with a PIN and an
\* amount that pass its checks.
InitAttempts ==
    /\ Init
    /\ CHARGE_PIN = <<"4", "4", "1">>
    /\ amount = 10000

NextAttempts ==
    \/ Next
    \/ NextAttempt

SpecAttempts == InitAttempts /\ [][NextAttempts]_vars

\* lotto645.py started with a command line of Argvs.
Init645 ==
    /\ argv \in Argvs
    /\ pa_state = "called"
    /\ pa_return = Unassigned
    /\ pa_exit = None
    /\ pa_printed = <<>>
    /\ IdleCharge
    /\ IdleLogin
    /\ IdleRun645
    /\ Idle720

Next645 == parse_arguments

Spec645 == Init645 /\ [][Next645]_vars

\* is_logged_in called on a page of Urls.
InitLogin ==
    /\ url \in Urls
    /\ entry_url = url
    /\ li_pc = "li_start"
    /\ li_ret = "unset"
    /\ cle_call = 0
    /\ cle_step = 0
    /\ page_ops = <<>>
    /\ IdleCharge
    /\ Idle645
    /\ IdleRun645
    /\ Idle720

NextLogin ==
    \/ CheckMobile
    \/ IsVisible
    \/ CheckUrl
    \/ CheckLoginLink

SpecLogin == InitLogin /\ [][NextLogin]_vars

\* run of lotto645.py called with what parse_arguments may return.
InitRun645 ==
    /\ auto_games \in AutoGames
    /\ manual_numbers \in ManualNumbers
    /\ run_pc = "login"
    /\ game_idx = 0
    /\ payment_text = Unassigned
    /\ run_ret = Unassigned
    /\ run_exc = "none"
    /\ calls645 = <<>>
    /\ IdleCharge
    /\ Idle645
    /\ IdleLogin
    /\ Idle720

NextRun645 ==
    \/ Login645
    \/ Navigate645
    \/ LoadFrame645
    \/ SelectManual
    \/ SelectAuto
    \/ CheckGames
    \/ VerifyPayment
    \/ Buy
    \/ Confirm
    \/ CheckResult

SpecRun645 == InitRun645 /\ [][NextRun645]_vars

\* lotto720.py started as a script, lotto720.py:206-210.
Init720 ==
    /\ pc720 = "login"
    /\ balance_val = Unassigned
    /\ payment_amount_text = Unassigned
    /\ exc720 = "none"
    /\ calls720 = <<>>
    /\ exit720 = None
    /\ IdleCharge
    /\ Idle645
    /\ IdleLogin
    /\ IdleRun645

Next720 ==
    \/ Login720
    \/ Navigate720
    \/ VerifySession
    \/ DismissPopup
    \/ PickNumbers
    \/ VerifyAmount
    \/ Buy720
    \/ ConfirmPurchase
    \/ Main720

Spec720 == Init720 /\ [][Next720]_vars

----------------------------------------------------------------------------
(* What the claims speak of.                                               *)

\* The keypad clicks and pacing sleeps made so far, in order.
KeypadEvents == SelectSeq(events, LAMBDA ev : ev.op \in {"click", "sleep"})

KeypadClicks == SelectSeq(events, LAMBDA ev : ev.op = "click")

\* A click on the element mapped to each of the first n PIN digits, in PIN
\* order, each followed by the 0.3 s pause.
PressesOfPrefix(n) ==
    [j \in 1..(2 * n) |->
        IF j % 2 = 1
        THEN [op |-> "click",
              element |-> number_map[CHARGE_PIN[(j + 1) \div 2]]]
        ELSE [op |-> "sleep", ms |-> 300]]

PinInMap ==
    /\ CHARGE_PIN # <<>>
    /\ \A j \in 1..Len(CHARGE_PIN) : CHARGE_PIN[j] \in DOMAIN number_map

PinEntryOver == pc = "done" /\ pk_state = "returned"

MissingAt(p) ==
    /\ p \in 1..Len(CHARGE_PIN)
    /\ CHARGE_PIN[p] \notin DOMAIN number_map
    /\ \A q \in 1..(p - 1) : CHARGE_PIN[q] \in DOMAIN number_map

IsDegenerate(box) == box = NoBox \/ box.width = 0 \/ box.height = 0

YXBefore(a, b) == a.y < b.y \/ (a.y = b.y /\ a.x < b.x)

RecognizedAs(d) == {e \in DOMAIN recognized : recognized[e] = d}

Texts == {recognized[e] : e \in DOMAIN recognized} \ {None}

\* The element of S whose box comes first in (y, x) order.
YXFirst(S) ==
    CHOOSE e \in S : \A f \in S \ {e} : YXBefore(boxes[e], boxes[f])

----------------------------------------------------------------------------
(* C1.  PIN entry success.                                                 *)

\* C1, as claimed: whenever the PIN is non-empty and each of its digits is a
\* key of the digit map, PIN entry makes exactly len(PIN) clicks, the k-th
\* on the element mapped to the k-th digit, a pause after each, and reports
\* success.
C1_AnyMapWithPinDigits ==
    (PinEntryOver /\ PinInMap)
        => (ret = "True" /\ KeypadEvents = PressesOfPrefix(Len(CHARGE_PIN)))

\* C1, amended: the same, for a digit map of at least 9 entries; with fewer
\* entries charge_deposit returns False before the first click.
C1_PinEntrySucceeds ==
    (PinEntryOver /\ PinInMap)
        => IF Cardinality(DOMAIN number_map) >= 9
           THEN /\ ret = "True"
                /\ KeypadEvents = PressesOfPrefix(Len(CHARGE_PIN))
                /\ events[Len(events)] = [op |-> "wait_for_load_state"]
           ELSE ret = "False" /\ KeypadEvents = <<>>

C1_Witness ==
    /\ PinEntryOver
    /\ ret = "True"
    /\ CHARGE_PIN = <<"1", "2", "3", "4">>
    /\ Len(KeypadClicks) = 4
    /\ Cardinality({KeypadClicks[j].element : j \in 1..4}) = 4

----------------------------------------------------------------------------
(* C2.  PIN entry with a missing digit.                                    *)

----------------------------------------------------------------------------
(* C3.  The shape of the digit map.                                        *)

\* C3, as claimed: at every point the digit map has at most 10 entries,
\* every key is one of "0".."9", and a key once bound keeps its element
\* (the first button in recognition order that was read as that key),
\* whatever the OCR outputs.
C3_MapShape ==
    /\ Cardinality(DOMAIN number_map) <= 10
    /\ DOMAIN number_map \subseteq AsciiDigits
    /\ \A d \in DOMAIN number_map :
          number_map[d] = YXFirst(RecognizedAs(d))

----------------------------------------------------------------------------
(* C4.  Duplicate recognition.                                             *)

\* C4: when two or more buttons are recognized as the same digit d, the
\* returned map binds d to the one of them that comes first in (y, x)
\* ascending order, and to no other.
C4_FirstInOrderWins ==
    pk_state = "returned"
        => \A d \in Texts :
              Cardinality(RecognizedAs(d)) >= 2
                  => /\ d \in DOMAIN number_map
                     /\ number_map[d] = YXFirst(RecognizedAs(d))

C4_Witness ==
    /\ pk_state = "returned"
    /\ \E d \in Texts :
          /\ Cardinality(RecognizedAs(d)) >= 2
          /\ number_map[d] # 1

----------------------------------------------------------------------------
(* C5.  Correct mapping.                                                   *)

\* The buttons cropped so far.
Cropped == {crops[j].element : j \in 1..Len(crops)}

----------------------------------------------------------------------------
(* C6.  The button locator.                                                *)

AllBoxesRead == count > 0 /\ Len(boxes) = count

AllBoxesValid ==
    AllBoxesRead /\ \A e \in 1..count : ~IsDegenerate(boxes[e])

\* C6: when all N buttons have non-degenerate boxes, exactly N candidates
\* are produced, each button once, and they are recognized in ascending
\* (y, x) order whatever the order of enumeration.
C6_LocatorSortsAll ==
    AllBoxesValid
        => /\ Len(button_positions) = count
           /\ {button_positions[j].element : j \in 1..count} = 1..count
           /\ \A j \in 1..Len(crops) :
                 /\ crops[j].element = button_positions[j].element
                 /\ \A i \in 1..(j - 1) :
                       YXBefore(boxes[crops[i].element],
                                boxes[crops[j].element])
           /\ pk_state = "returned" => Len(crops) = count

C6_Witness ==
    /\ AllBoxesValid
    /\ pk_state = "returned"
    /\ count = KEYPAD_BUTTONS
    /\ layout = "reverse"
    /\ crops[1].element = count

----------------------------------------------------------------------------
(* C7.  Zero candidates.                                                   *)

\* C7, as claimed: when no button has a valid, non-degenerate bounding box,
\* parse_keypad raises instead of returning a digit map.
C7_NoCandidatesIsFatal ==
    pk_state = "returned" => button_positions # <<>>

----------------------------------------------------------------------------
(* C8.  Degenerate capture.                                                *)

\* C8: when the keypad container's bounding box is missing or has zero
\* width or zero height, parse_keypad raises the capture failure, and no
\* screenshot, crop or OCR call has been made.
C8_DegenerateCaptureIsFatal ==
    (keypad_box # Unassigned /\ IsDegenerate(keypad_box))
        => /\ pk_state = "raised"
           /\ exc = "InvalidKeypadSize"
           /\ screenshots = <<>>
           /\ crops = <<>>
           /\ ~ocr_called

C8_Witness ==
    /\ exc = "InvalidKeypadSize"
    /\ keypad_box # NoBox
    /\ keypad_box.height = 0
    /\ button_positions # <<>>

----------------------------------------------------------------------------
(* C9.  OCR unavailable.                                                   *)

\* C9, as claimed: when the OCR engine cannot be invoked, parse_keypad
\* never returns a digit map, empty or partial.
C9_NoMapWithoutOcr ==
    pk_state = "returned" => tesseract_ok

----------------------------------------------------------------------------
(* C10.  Degenerate buttons.                                               *)

DegenerateButtons == {e \in 1..Len(boxes) : IsDegenerate(boxes[e])}

\* C10: a button whose box is absent or has zero width or height is never
\* cropped, never passed to OCR and never a value of the digit map; and
\* when parse_keypad raises although a valid button exists, the cause is
\* the capture box or the OCR engine, not the degenerate button.
C10_DegenerateFiltered ==
    /\ Cropped \cap DegenerateButtons = {}
    /\ DOMAIN recognized \cap DegenerateButtons = {}
    /\ \A d \in DOMAIN number_map : number_map[d] \notin DegenerateButtons
    /\ \A j \in 1..Len(button_positions) :
          button_positions[j].element \notin DegenerateButtons
    /\ (/\ pk_state = "raised"
        /\ DegenerateButtons # {}
        /\ DegenerateButtons # 1..Len(boxes))
          => \/ exc = "InvalidKeypadSize" /\ IsDegenerate(keypad_box)
             \/ exc = "TesseractNotFoundError" /\ ~tesseract_ok

C10_Witness ==
    /\ pk_state = "returned"
    /\ count = 2
    /\ boxes[1] # NoBox
    /\ boxes[1].height = 0
    /\ number_map = ("4" :> 2)

----------------------------------------------------------------------------
(* C11.  A button that cannot be read.                                     *)

\* The buttons whose recognition ended without a digit.
Unread == {e \in DOMAIN recognized : recognized[e] = None}

\* The buttons that passed the filter of charge.py:84.
Positioned == {button_positions[j].element : j \in 1..Len(button_positions)}

\* C11: a button that yields no single digit under any image and
\* configuration raises nothing; the buttons after it in sort order are
\* still recognized; and the map returned is the one built from the other
\* buttons (each digit read bound to the first button read as it), however
\* few of the digits it holds.
C11_UnreadButtonSkipped ==
    /\ Unread # {} => (exc = "none" /\ pk_state # "raised")
    /\ pc = "pk_ocr"
          => DOMAIN recognized =
                {button_positions[j].element : j \in 1..(idx - 1)}
    /\ pk_state = "returned"
          => /\ DOMAIN recognized = Positioned
             /\ DOMAIN number_map = Texts
             /\ \A d \in Texts : number_map[d] = YXFirst(RecognizedAs(d))

\* The first button in sort order shows a digit and is not read; the other
\* eleven are processed and a map of nine digits is returned.
C11_Witness ==
    /\ pk_state = "returned"
    /\ count = KEYPAD_BUTTONS
    /\ layout = "page"
    /\ 1 \in Unread
    /\ Glyph(1) \in AsciiDigits
    /\ Glyph(1) \notin DOMAIN number_map
    /\ Cardinality(DOMAIN recognized) = KEYPAD_BUTTONS
    /\ Cardinality(DOMAIN number_map) = 9

----------------------------------------------------------------------------
(* C12.  No state carried from one attempt to the next.                    *)

\* The call is past charge.py:104, where parse_keypad creates its map.
MapCreated ==
    \/ pc \in {"pk_ocr", "pk_return", "cd_gate", "cd_pin", "cd_idle"}
    \/ pc = "done" /\ pk_state = "returned"

\* C12: in every call, the first as well as a later one, parse_keypad
\* starts from an empty map, and the map it fills and PIN entry uses binds
\* a digit only to a button that this call located and this call read as
\* that digit; every keypad click is on such a button.
C12_FreshMapEachAttempt ==
    /\ (pc = "pk_ocr" /\ idx = 1) => number_map = <<>>
    /\ MapCreated
          => \A d \in DOMAIN number_map :
                /\ number_map[d] \in Positioned
                /\ number_map[d] \in DOMAIN recognized
                /\ recognized[number_map[d]] = d
    /\ \A j \in 1..Len(KeypadClicks) :
          /\ KeypadClicks[j].element \in Positioned
          /\ KeypadClicks[j].element \in DOMAIN recognized
          /\ recognized[KeypadClicks[j].element] = CHARGE_PIN[j]

\* A second call of charge_deposit, which decodes a keypad of two buttons,
\* reads one of them and stops at the gate.
C12_Witness ==
    /\ attempt = 2
    /\ PinEntryOver
    /\ count = 2
    /\ number_map = ("4" :> 2)
    /\ ret = "False"

----------------------------------------------------------------------------
(* C13.  The command line of lotto645.py.                                  *)

\* The argument with its commas taken out.
WithoutCommas(s) == SelectSeq(s, LAMBDA ch : ch # ",")

\* The six arguments as integers.
SixNumbers == [q \in 1..6 |-> int(argv[q]).value]

\* C13: with one argument parse_arguments returns (a/1000, []) exactly when
\* the argument without its commas parses to an integer a among 1000, 2000,
\* 3000, 4000, 5000, and exits with status 1 otherwise; with six arguments
\* it returns (0, [the six numbers]) exactly when all six parse to integers
\* of 1..45 that are pairwise distinct, and exits with status 1 otherwise;
\* with 2-5 or 7 and more arguments it exits with status 1.
C13_ArgumentPartition ==
    (pa_state \notin {"idle", "called"} /\ Len(argv) >= 1)
        => IF Len(argv) = 1
           THEN LET a == int(WithoutCommas(argv[1]))
                IN  IF a # ValueError
                       /\ a.value \in {1000, 2000, 3000, 4000, 5000}
                    THEN /\ pa_state = "returned"
                         /\ pa_return = <<a.value \div 1000, <<>> >>
                    ELSE pa_state = "exited" /\ pa_exit = 1
           ELSE IF Len(argv) = 6
           THEN IF /\ \A q \in 1..6 : int(argv[q]) # ValueError
                   /\ \A q \in 1..6 : SixNumbers[q] \in 1..45
                   /\ \A p, q \in 1..6 :
                         p # q => SixNumbers[p] # SixNumbers[q]
                THEN /\ pa_state = "returned"
                     /\ pa_return = <<0, <<SixNumbers>> >>
                ELSE pa_state = "exited" /\ pa_exit = 1
           ELSE pa_state = "exited" /\ pa_exit = 1

\* "3,000" alone buys three automatic games.
C13_Witness ==
    /\ pa_state = "returned"
    /\ argv = << <<"3", ",", "0", "0", "0">> >>
    /\ pa_return = <<3, <<>> >>

----------------------------------------------------------------------------
(* C14.  What is_logged_in does to the page.                               *)

\* C14, as claimed: on every path is_logged_in only reads the page (its
\* URL, the visibility of elements) and leaves it where it was: it never
\* navigates, fills or clicks.
C14_NonIntrusive ==
    /\ url = entry_url
    /\ \A j \in 1..Len(page_ops) : page_ops[j].op = "is_visible"

----------------------------------------------------------------------------
(* C15.  The validity of an OCR output and the order of configurations.    *)

\* image_to_string has returned at least once in this call; result is the
\* trimmed output of the latest call, made for LastCropped.
OcrReturned == ocr_called /\ tesseract_ok

LastCropped == crops[Len(crops)].element

\* The page segmentation mode of the j-th call made on one image, in the
\* order claimed: single character, single line, single word.
ClaimedPsm(j) == <<10, 7, 8>>[((j - 1) % 3) + 1]

\* One character, an ASCII digit.
AsciiSingleDigit(out) == Len(out) = 1 /\ out[1] \in AsciiDigits

\* C15, as claimed: the configurations are tried on an image in the order
\* single character, single line, single word; an output that is exactly
\* one ASCII digit ends the button's recognition with that digit; any other
\* output (empty, several characters, not an ASCII digit) raises nothing
\* and, while a configuration is left for the image, recognition of the
\* same button goes on with the next configuration.
C15_FirstValidConfigWins ==
    OcrReturned
        => /\ \A j \in 1..Len(ocr_calls) : ocr_calls[j][2] = ClaimedPsm(j)
           /\ exc = "none"
           /\ IF AsciiSingleDigit(result)
              THEN /\ LastCropped \in DOMAIN recognized
                   /\ recognized[LastCropped] = result[1]
                   /\ text = result[1]
              ELSE Len(ocr_calls) % 3 # 0
                      => /\ LastCropped \notin DOMAIN recognized
                         /\ pc = "pk_ocr"
                         /\ text = None
                         /\ image = ocr_calls[Len(ocr_calls)][1]
                         /\ configs[cfg] = ClaimedPsm(Len(ocr_calls) + 1)

----------------------------------------------------------------------------
(* C16.  Early exit.                                                       *)

\* C16: once an OCR call for a button has returned a valid single digit the
\* button's recognition is over (no call under a remaining configuration,
\* none on a remaining image): the loop has stepped to the next button, the
\* digit is the button's text, and the crops, one per button, follow the
\* sort order, so that the next OCR call is for the next button.
C16_EarlyExit ==
    /\ Len(crops) <= Len(button_positions)
    /\ \A j \in 1..Len(crops) :
          crops[j].element = button_positions[j].element
    /\ (OcrReturned /\ SingleDigit(result))
          => /\ Len(crops) = idx - 1
             /\ LastCropped \in DOMAIN recognized
             /\ recognized[LastCropped] = result[1]
             /\ text = result[1]

\* The first button is read under the second configuration; the third
\* configuration and the sharpened image are not tried, and the loop
\* stands at the second button.
C16_Witness ==
    /\ pc = "pk_ocr"
    /\ count = KEYPAD_BUTTONS
    /\ OcrReturned
    /\ SingleDigit(result)
    /\ ocr_calls = <<<<"binary", 10>>, <<"binary", 7>>>>
    /\ Len(crops) = 1
    /\ idx = 2

----------------------------------------------------------------------------
(* C17.  The preprocessing ladder.                                         *)

\* The images of charge.py:120-143, in the order claimed.
ClaimedImages == <<"gray", "enhanced", "binary", "sharp", "binary_sharp">>

\* The calls made for a button that is not read.
ThresholdedCalls ==
    <<<<"binary", 10>>, <<"binary", 7>>, <<"binary", 8>>,
      <<"binary_sharp", 10>>, <<"binary_sharp", 7>>, <<"binary_sharp", 8>>>>

\* The button cropped last has been given up.
LastGivenUp ==
    /\ OcrReturned
    /\ LastCropped \in DOMAIN recognized
    /\ recognized[LastCropped] = None

----------------------------------------------------------------------------
(* C18.  One capture.                                                      *)

\* The positions in events of the screenshots taken.
Shots == {j \in 1..Len(events) : events[j].op = "screenshot"}

\* C18: a parse_keypad call takes at most one screenshot and none after it
\* has begun to crop; a call that crops, calls OCR or returns has taken
\* exactly one, clipped to the container box read after the 1 s settle
\* delay; and every crop is cut at (button.x - container.x,
\* button.y - container.y) with the button's width and height.
C18_SingleCapture ==
    /\ Cardinality(Shots) <= 1
    /\ Len(screenshots) = Cardinality(Shots)
    /\ (crops # <<>> \/ ocr_called \/ pk_state = "returned")
          => Cardinality(Shots) = 1
    /\ \A j \in Shots :
          /\ j >= 3
          /\ events[j - 2] = [op |-> "settle", ms |-> 1000]
          /\ events[j - 1] = [op |-> "bounding_box", box |-> keypad_box]
          /\ events[j] = [op |-> "screenshot", clip |-> keypad_box]
          /\ screenshots = <<keypad_box>>
    /\ \A j \in 1..Len(crops) :
          LET b == boxes[crops[j].element]
              left == b.x - keypad_box.x
              upper == b.y - keypad_box.y
          IN  crops[j].box = <<left, upper, left + b.width, upper + b.height>>

\* A keypad of twelve buttons decoded from one screenshot; the button in
\* the middle of the second row is cut at (40, 40).
C18_Witness ==
    /\ pk_state = "returned"
    /\ count = KEYPAD_BUTTONS
    /\ layout = "page"
    /\ Cardinality(Shots) = 1
    /\ Len(crops) = KEYPAD_BUTTONS
    /\ crops[5] = [element |-> 5, box |-> <<40, 40, 80, 80>>]

----------------------------------------------------------------------------
(* C19.  The input preconditions of charge_deposit.                        *)

\* CHARGE_PIN is unset or empty, or the amount is none of the three.
BadInputs == CHARGE_PIN = <<>> \/ amount \notin {5000, 10000, 20000}

\* C19: with CHARGE_PIN unset or empty, or an amount other than 5000,
\* 10000, 20000, charge_deposit returns False at its first step; the keypad
\* is never awaited, captured or decoded and no keypad button is clicked.
C19_InputPreconditions ==
    BadInputs
        => /\ pc \in {"cd_start", "done"}
           /\ pc = "done" => ret = "False"
           /\ exc = "none"
           /\ pk_state = "not_called"
           /\ screenshots = <<>>
           /\ crops = <<>>
           /\ ~ocr_called
           /\ number_map = <<>>
           /\ KeypadEvents = <<>>

\* A PIN is set and the amount is 15000: the charge page is opened, the
\* amount refused, and False returned.
C19_Witness ==
    /\ CHARGE_PIN = <<"1", "2", "3", "4">>
    /\ amount = 15000
    /\ pc = "done"
    /\ ret = "False"
    /\ events = <<[op |-> "goto"], [op |-> "click_easy_charge"]>>

----------------------------------------------------------------------------
(* C20.  The completeness gate.                                            *)

\* C20: when parse_keypad returns a map of fewer than 9 entries,
\* charge_deposit returns False and clicks no keypad button, even if every
\* PIN digit is a key of the map; with 9 or more entries the PIN loop is
\* entered, and its first digit, if a key of the map, is clicked.
C20_CompletenessGate ==
    PinEntryOver
        => IF Cardinality(DOMAIN number_map) < 9
           THEN /\ ret = "False"
                /\ k = 0
                /\ KeypadEvents = <<>>
           ELSE /\ k >= 1
                /\ CHARGE_PIN[1] \in DOMAIN number_map
                      => /\ KeypadClicks # <<>>
                         /\ KeypadClicks[1].element = number_map[CHARGE_PIN[1]]

\* A keypad of two buttons read as "3" and "4": the PIN "3" is in the map
\* of two entries, and nothing is clicked.
C20_Witness ==
    /\ PinEntryOver
    /\ CHARGE_PIN = <<"3">>
    /\ number_map = ("3" :> 1) @@ ("4" :> 2)
    /\ PinInMap
    /\ ret = "False"
    /\ KeypadClicks = <<>>

----------------------------------------------------------------------------
(* C21.  The click-prefix invariant of the charge flow.                    *)

\* The keypad clicks made so far are one click for each of the first n PIN
\* digits, in PIN order, each on the element the map holds for that digit.
PrefixClicked(n) ==
    /\ n \in 0..Len(CHARGE_PIN)
    /\ \A j \in 1..n : CHARGE_PIN[j] \in DOMAIN number_map
    /\ KeypadClicks =
         [j \in 1..n |->
             [op |-> "click", element |-> number_map[CHARGE_PIN[j]]]]

\* C21: at every point of charge_deposit the keypad clicks made so far are
\* the elements mapped to a prefix of CHARGE_PIN, in PIN order, one click
\* for each occurrence of a digit (inside the PIN loop, the prefix before
\* the digit the loop is at); and charge_deposit returns True only when the
\* prefix is the whole PIN and the last thing done to the page after the
\* clicks is the wait for network idle.
C21_ClickPrefix ==
    /\ \E n \in 0..Len(CHARGE_PIN) : PrefixClicked(n)
    /\ pc = "cd_pin" => PrefixClicked(k - 1)
    /\ ret = "True"
          => /\ PrefixClicked(Len(CHARGE_PIN))
             /\ events # <<>>
             /\ events[Len(events)] = [op |-> "wait_for_load_state"]
             /\ events[Len(events) - 1] = [op |-> "sleep", ms |-> 300]

\* The PIN "441" entered in full on the second call of charge_deposit: the
\* element of "4" clicked twice, then the element of "1", and True returned.
C21_Witness ==
    /\ attempt = 2
    /\ pc = "done"
    /\ ret = "True"
    /\ CHARGE_PIN = <<"4", "4", "1">>
    /\ Len(KeypadClicks) = 3
    /\ KeypadClicks[1] = KeypadClicks[2]
    /\ KeypadClicks[3] # KeypadClicks[2]

----------------------------------------------------------------------------
(* C22.  The purchase gate of lotto645.                                    *)

BuyClicked ==
    \E j \in 1..Len(calls645) :
        calls645[j] = [op |-> "click", locator |-> "#btnBuy"]

ConfirmClicked ==
    \E j \in 1..Len(calls645) :
        calls645[j] = [op |-> "click", locator |-> "#popupLayerConfirm input"]

\* run has read the text of #payAmt and taken a number from it or failed to.
PaymentRead ==
    \/ run_exc \in {"ValueError", "Payment mismatch"}
    \/ \E j \in 1..Len(calls645) :
          calls645[j] = [op |-> "sr.stage", name |-> "PURCHASE"]

\* The number of games run was asked to buy.
GamesAsked == Len(manual_numbers) + auto_games

\* The text read from #payAmt is one of the ways the page shows the amount.
Shows(shown, won) ==
    \E n \in 0..(MaxManual + 5) :
        /\ won = 1000 * n
        /\ \E r \in Renderings(n) : strip(r) = shown

\* C22: in run of lotto645.py the purchase button #btnBuy and the
\* confirmation button are clicked only if the number of games
\* (len(manual_numbers) + auto_games) is greater than 0 and the payment
\* amount the page displays is 1000 times that number; with zero games run
\* goes no further than the check of the games, returns
\* {processed_count: 0} and clicks no purchase button; and when the text
\* read does not show 1000 times the number of games, run raises and has
\* clicked no purchase button.
C22_PurchaseGate ==
    /\ (BuyClicked \/ ConfirmClicked)
          => /\ GamesAsked > 0
             /\ PaymentRead
             /\ Shows(payment_text, 1000 * GamesAsked)
    /\ ConfirmClicked => BuyClicked
    /\ GamesAsked = 0
          => /\ run_pc \notin {"payment", "buy", "confirm", "result"}
             /\ run_pc = "returned" => run_ret = [processed_count |-> 0]
             /\ ~ BuyClicked
             /\ ~ ConfirmClicked
    /\ (PaymentRead /\ ~ Shows(payment_text, 1000 * GamesAsked))
          => /\ run_pc = "raised"
             /\ run_exc \in {"ValueError", "Payment mismatch"}
             /\ ~ BuyClicked
             /\ ~ ConfirmClicked

\* Two manual games and one automatic game, the page showing "3,000":
\* both buttons clicked and three games reported.
C22_Witness ==
    /\ run_pc = "returned"
    /\ Len(manual_numbers) = 2
    /\ auto_games = 1
    /\ PaymentRead
    /\ payment_text = <<"3", ",", "0", "0", "0">>
    /\ BuyClicked
    /\ ConfirmClicked
    /\ run_ret = [processed_count |-> 3]

----------------------------------------------------------------------------
(* C23.  Success reporting of lotto720.                                    *)

SuccessReported ==
    \E j \in 1..Len(calls720) :
        calls720[j] = [op |-> "sr.success",
                       details |-> [processed_count |-> 5]]

FinalClicked ==
    \E j \in 1..Len(calls720) :
        calls720[j] = [op |-> "click",
                       locator |-> "#lotto720_popup_confirm a.btn_blue"]

\* C23, as claimed: the script reports success (sr.success with
\* processed_count 5) only if run made the final click of the purchase
\* confirmation; whenever run stopped before that click, the displayed
\* payment amount differing from 5000 included, success is not reported.
C23_SuccessOnlyAfterFinalClick == SuccessReported => FinalClicked

====
